---- MODULE Spec2Model ----
(***************************************************************************)
(* Model of the reflexion-core graph store (src/src/core/graph.rs), with   *)
(* the shared types of src/src/core/types.rs and src/src/core/state.rs.     *)
(*                                                                         *)
(* The store is the struct ReflexionGraph.  Each of its fields is one      *)
(* variable.  Each method is an operator on a record holding all fields    *)
(* (the value of *self), and an action applying that operator to the       *)
(* current state.                                                          *)
(***************************************************************************)
EXTENDS Integers, Sequences, FiniteSets, TLC

VARIABLES
    nodes,              \* HashMap<NodeId, Node>
    edges,              \* HashMap<EdgeId, Edge>
    impl_out,           \* HashMap<NodeId, Vec<EdgeId>>
    arch_out,           \* HashMap<NodeId, Vec<EdgeId>>
    maps_to,            \* HashMap<NodeId, NodeId>
    propagation_table,  \* HashMap<EdgeId, HashSet<EdgeId>>
    next_node_id,       \* NodeId
    next_edge_id,       \* EdgeId
    last,               \* the last call: its name, the ids its argument refers to, its result
    node_ids,           \* the ids returned by the successful add_node calls, in order
    edge_ids,           \* the ids returned by the successful add_edge calls, in order
    classified          \* the states a caller has classified, each with the
                        \* values of the three predicates of its taxonomy

store_vars == <<nodes, edges, impl_out, arch_out, maps_to, propagation_table,
                next_node_id, next_edge_id>>
vars == <<nodes, edges, impl_out, arch_out, maps_to, propagation_table,
          next_node_id, next_edge_id, last, node_ids, edge_ids, classified>>

----------------------------------------------------------------------------
(* Bounds of the model. *)

\* add_node and add_edge together succeed at most MaxRecords times
MaxRecords == 4
\* a caller classifies at most MaxClassified states
MaxClassified == 2

----------------------------------------------------------------------------
(* Shared types: src/src/core/types.rs, src/src/core/state.rs *)

\* NodeId and EdgeId are u32.  The counters of the store count from 1 and the
\* model stops them at MaxRecords + 1, far below 2^32, so their increment is
\* modelled without the wrap-around.

SubgraphKind == {"Architecture", "Implementation", "Propagated"}

EdgeState == {"Undefined", "Specified", "Convergent", "Absent", "AllowedAbsent",
              "Allowed", "Divergent", "Unmapped"}

NodeState == {"Mapped", "Unmapped", "SpecifiedOnly", "Undefined"}

\* EdgeState::is_violation with Unmapped taken for a violation
EdgeState_is_violation_with_unmapped(s) == s \in {"Absent", "Divergent", "Unmapped"}

\* EdgeState::is_violation
EdgeState_is_violation(s) == s \in {"Absent", "Divergent"}

\* EdgeState::is_unknown
EdgeState_is_unknown(s) == s \in {"Undefined", "Unmapped", "Specified"}

\* EdgeState::is_ok without AllowedAbsent
EdgeState_is_ok_without_allowed_absent(s) == s \in {"Allowed", "Convergent"}

\* EdgeState::is_ok
EdgeState_is_ok(s) == s \in {"Allowed", "AllowedAbsent", "Convergent"}

\* NodeState::is_problem
NodeState_is_problem(s) == s \in {"Unmapped", "SpecifiedOnly"}

\* NodeState::is_unknown
NodeState_is_unknown(s) == s \in {"Undefined"}

\* NodeState::is_ok
NodeState_is_ok(s) == s \in {"Mapped"}

\* Option<NodeId>: None is the empty sequence, Some(p) the sequence <<p>>
None == <<>>
Some(p) == <<p>>
is_some(o) == Len(o) = 1
unwrap(o) == o[1]

----------------------------------------------------------------------------
(* HashMap and Vec operations used by the store *)

contains_key(m, k) == k \in DOMAIN m

\* HashMap::insert
insert(m, k, v) == [x \in (DOMAIN m) \cup {k} |-> IF x = k THEN v ELSE m[x]]

\* HashMap::remove
remove(m, k) == [x \in (DOMAIN m) \ {k} |-> m[x]]

\* HashMap::entry(k).or_default().push(id) on a map of vectors
entry_push(m, k, id) ==
    IF contains_key(m, k) THEN [m EXCEPT ![k] = Append(@, id)]
    ELSE insert(m, k, <<id>>)

\* retain with the test inverted
retain_eq(v, eid) == SelectSeq(v, LAMBDA x : x = eid)

\* v.retain(|&x| x != eid)
retain_ne(v, eid) == SelectSeq(v, LAMBDA x : x # eid)

\* an empty HashMap
EmptyMap == [x \in {} |-> 0]

----------------------------------------------------------------------------
(* The store as one value, and the results of its methods *)

\* the current value of the struct
Self == [nodes |-> nodes, edges |-> edges, impl_out |-> impl_out,
         arch_out |-> arch_out, maps_to |-> maps_to,
         propagation_table |-> propagation_table,
         next_node_id |-> next_node_id, next_edge_id |-> next_edge_id]

\* ReflexionGraph::new()
new == [nodes |-> EmptyMap, edges |-> EmptyMap, impl_out |-> EmptyMap,
        arch_out |-> EmptyMap, maps_to |-> EmptyMap,
        propagation_table |-> EmptyMap,
        next_node_id |-> 1, next_edge_id |-> 1]

\* Result<u32, GraphError>, and () for the methods that return nothing
Ok(id) == [tag |-> "Ok", id |-> id]
ParentNotFound(id) == [tag |-> "ParentNotFound", id |-> id]
NodeNotFound(id) == [tag |-> "NodeNotFound", id |-> id]
Unit == [tag |-> "Unit", id |-> 0]

fresh_node_id(g) ==
    [id |-> g.next_node_id,
     g |-> [g EXCEPT !.next_node_id = @ + 1]]

\* fresh_edge_id taking the id from the number of stored edges
fresh_edge_id_by_len(g) ==
    [id |-> Cardinality(DOMAIN g.edges) + 1,
     g |-> [g EXCEPT !.next_edge_id = @ + 1]]

fresh_edge_id(g) ==
    [id |-> g.next_edge_id,
     g |-> [g EXCEPT !.next_edge_id = @ + 1]]

\* missing_parent looking the parent up in the store as it is after the
\* insertion of the node
missing_parent_after_insert(g, node) ==
    IF /\ is_some(node.parent)
       /\ ~contains_key(g.nodes, unwrap(node.parent))
       /\ unwrap(node.parent) # g.next_node_id
    THEN node.parent ELSE None

\* the parent a node record names and the store lacks, if any
missing_parent(g, node) ==
    IF is_some(node.parent) /\ ~contains_key(g.nodes, unwrap(node.parent))
    THEN node.parent ELSE None

\* insert_node storing the record with the id the caller gave it
insert_node_keeps_id(g, node) ==
    LET f == fresh_node_id(g)
        id == f.id
        g1 == [f.g EXCEPT !.nodes = insert(@, id, node)]
        parent == g1.nodes[id].parent
        g2 == IF is_some(parent)
              THEN [g1 EXCEPT !.nodes[unwrap(parent)].children = Append(@, id)]
              ELSE g1
    IN [g |-> g2, res |-> Ok(id)]

\* insert_node putting the id at the front of the parent's children list
insert_node_child_first(g, node) ==
    LET f == fresh_node_id(g)
        id == f.id
        g1 == [f.g EXCEPT !.nodes = insert(@, id, [node EXCEPT !.id = id])]
        parent == g1.nodes[id].parent
        g2 == IF is_some(parent)
              THEN [g1 EXCEPT !.nodes[unwrap(parent)].children = <<id>> \o @]
              ELSE g1
    IN [g |-> g2, res |-> Ok(id)]

\* add_node past its validation: the record gets a fresh id, is inserted,
\* and its parent's children list gets the id
insert_node(g, node) ==
    LET f == fresh_node_id(g)
        id == f.id
        g1 == [f.g EXCEPT !.nodes = insert(@, id, [node EXCEPT !.id = id])]
        parent == g1.nodes[id].parent
        g2 == IF is_some(parent)
              THEN [g1 EXCEPT !.nodes[unwrap(parent)].children = Append(@, id)]
              ELSE g1
    IN [g |-> g2, res |-> Ok(id)]

\* add_node taking the fresh id before it validates the parent
add_node_id_first(g, node) ==
    IF is_some(missing_parent(g, node))
    THEN [g |-> fresh_node_id(g).g,
          res |-> ParentNotFound(unwrap(missing_parent(g, node)))]
    ELSE insert_node(g, node)

add_node(g, node) ==
    IF is_some(missing_parent(g, node))
    THEN [g |-> g, res |-> ParentNotFound(unwrap(missing_parent(g, node)))]
    ELSE insert_node(g, node)

\* missing_endpoint validating the target before the source
missing_endpoint_target_first(g, edge) ==
    IF ~contains_key(g.nodes, edge.to) THEN Some(edge.to)
    ELSE IF ~contains_key(g.nodes, edge.from) THEN Some(edge.from)
    ELSE None

\* the first endpoint an edge record names and the store lacks, if any
missing_endpoint(g, edge) ==
    IF ~contains_key(g.nodes, edge.from) THEN Some(edge.from)
    ELSE IF ~contains_key(g.nodes, edge.to) THEN Some(edge.to)
    ELSE None

\* route_edge with Propagated in the arm of Implementation
route_edge_propagated_to_impl(g, id) ==
    LET edge_ref == g.edges[id] IN
    IF edge_ref.subgraph \in {"Implementation", "Propagated"}
    THEN [g EXCEPT !.impl_out = entry_push(@, edge_ref.from, id)]
    ELSE [g EXCEPT !.arch_out = entry_push(@, edge_ref.from, id)]

\* the adjacency update of add_edge for the edge just inserted under id
route_edge(g, id) ==
    LET edge_ref == g.edges[id] IN
    IF edge_ref.subgraph = "Implementation"
    THEN [g EXCEPT !.impl_out = entry_push(@, edge_ref.from, id)]
    ELSE [g EXCEPT !.arch_out = entry_push(@, edge_ref.from, id)]

\* add_edge past its validation: the record gets a fresh id, is inserted,
\* and the adjacency index of its subgraph gets the id
insert_edge(g, edge) ==
    LET f == fresh_edge_id(g)
        id == f.id
        g1 == [f.g EXCEPT !.edges = insert(@, id, [edge EXCEPT !.id = id])]
    IN [g |-> route_edge(g1, id), res |-> Ok(id)]

\* add_edge validating the target only after it has inserted the edge
add_edge_late_target(g, edge) ==
    IF ~contains_key(g.nodes, edge.from)
    THEN [g |-> g, res |-> NodeNotFound(edge.from)]
    ELSE IF ~contains_key(g.nodes, edge.to)
    THEN [g |-> insert_edge(g, edge).g, res |-> NodeNotFound(edge.to)]
    ELSE insert_edge(g, edge)

add_edge(g, edge) ==
    IF is_some(missing_endpoint(g, edge))
    THEN [g |-> g, res |-> NodeNotFound(unwrap(missing_endpoint(g, edge)))]
    ELSE insert_edge(g, edge)

\* init_edge with Propagated in the arm of Architecture
init_edge_propagated_specified(edge) ==
    [edge EXCEPT !.counter = 0,
                 !.state = IF edge.subgraph = "Implementation"
                           THEN "Undefined" ELSE "Specified"]

\* init_edge choosing the state by the state the edge has, not by its subgraph
init_edge_by_state(edge) ==
    [edge EXCEPT !.counter = 0,
                 !.state = IF edge.state = "Specified"
                           THEN "Undefined" ELSE "Specified"]

\* init_edge filing the Propagated edges under Architecture
init_edge_resets_subgraph(edge) ==
    [edge EXCEPT !.counter = 0,
                 !.state = IF edge.subgraph = "Architecture"
                           THEN "Specified" ELSE "Undefined",
                 !.subgraph = IF edge.subgraph = "Propagated"
                              THEN "Architecture" ELSE @]

\* the body of the loop of init_states, for one edge
init_edge(edge) ==
    [edge EXCEPT !.counter = 0,
                 !.state = IF edge.subgraph = "Architecture"
                           THEN "Specified" ELSE "Undefined"]

\* init_states clearing the adjacency indices with the propagation table
init_states_clears_indices(g) ==
    [g EXCEPT !.edges = [id \in DOMAIN g.edges |-> init_edge(g.edges[id])],
              !.impl_out = EmptyMap,
              !.arch_out = EmptyMap,
              !.propagation_table = EmptyMap]

init_states(g) ==
    [g EXCEPT !.edges = [id \in DOMAIN g.edges |-> init_edge(g.edges[id])],
              !.propagation_table = EmptyMap]

\* to_remove collecting every edge of the architecture-facing index
to_remove_arch_facing(g) ==
    {id \in DOMAIN g.edges : g.edges[id].subgraph # "Implementation"}

\* the ids clear_propagated_edges collects
to_remove(g) == {id \in DOMAIN g.edges : g.edges[id].subgraph = "Propagated"}

\* remove_edge leaving the architecture-facing index as it is
remove_edge_keeps_arch_out(g, eid) ==
    IF ~contains_key(g.edges, eid) THEN g
    ELSE
        LET e == g.edges[eid]
            g1 == [g EXCEPT !.edges = remove(@, eid)]
            g2 == IF contains_key(g1.impl_out, e.from)
                  THEN [g1 EXCEPT !.impl_out[e.from] = retain_ne(@, eid)]
                  ELSE g1
        IN [g2 EXCEPT !.propagation_table =
                IF contains_key(@, eid) THEN remove(@, eid) ELSE @]

\* the body of the loop of clear_propagated_edges, for one collected id
remove_edge(g, eid) ==
    IF ~contains_key(g.edges, eid) THEN g
    ELSE
        LET e == g.edges[eid]
            g1 == [g EXCEPT !.edges = remove(@, eid)]
            g2 == IF contains_key(g1.impl_out, e.from)
                  THEN [g1 EXCEPT !.impl_out[e.from] = retain_ne(@, eid)]
                  ELSE g1
            g3 == IF contains_key(g2.arch_out, e.from)
                  THEN [g2 EXCEPT !.arch_out[e.from] = retain_ne(@, eid)]
                  ELSE g2
        IN [g3 EXCEPT !.propagation_table =
                IF contains_key(@, eid) THEN remove(@, eid) ELSE @]

\* the loop of clear_propagated_edges over the collected ids, in the order
\* the iteration of the HashMap produced them
RECURSIVE remove_all(_, _)
remove_all(g, order) ==
    IF order = <<>> THEN g
    ELSE remove_all(remove_edge(g, Head(order)), Tail(order))

\* the orders in which the iteration of a HashMap can produce a set of keys
Orders(S) == {o \in [1..Cardinality(S) -> S] : \A i, j \in DOMAIN o : i # j => o[i] # o[j]}

\* clear_propagated_edges ending, as init_states does, by clearing the
\* propagation table
clear_propagated_edges_clears_table(g, order) ==
    [remove_all(g, order) EXCEPT !.propagation_table = EmptyMap]

clear_propagated_edges(g, order) == remove_all(g, order)

----------------------------------------------------------------------------
(* The records callers pass in *)

\* tests::mk_node
mk_node(name, subgraph, parent) ==
    [id |-> 0, name |-> name, subgraph |-> subgraph, parent |-> parent,
     children |-> <<>>]

\* an id no node of the model ever gets (the tests use 999)
MissingId == 999

\* the ids a record refers to: the first two ids the store assigns, and MissingId
NodeIdArgs == {1, 2, MissingId}

\* the node records: those of mk_node, with and without a parent, and one
\* record built by hand whose id and children fields are already filled in
NodeArgs ==
    {mk_node("A", "Architecture", None)}
    \cup {mk_node("A", "Architecture", Some(p)) : p \in NodeIdArgs}
    \cup {[id |-> 1, name |-> "I", subgraph |-> "Implementation",
           parent |-> None, children |-> <<2>>]}

\* the sources and targets of the edge records
SourceArgs == {1, 2}
TargetArgs == {1, MissingId}

\* the id, state and counter an edge record of each subgraph carries: those of
\* the records of tests::init_states_resets_edge_states_counters_and_clears_
\* propagation_table, each wrong for its subgraph
StaleArgs ==
    [Architecture |-> [id |-> 10, state |-> "Undefined", counter |-> 7],
     Implementation |-> [id |-> 11, state |-> "Specified", counter |-> 9],
     Propagated |-> [id |-> 12, state |-> "Specified", counter |-> 3]]

EdgeArgs ==
    {[id |-> StaleArgs[s].id, from |-> f, to |-> t, kind |-> "depends_on",
      subgraph |-> s, state |-> StaleArgs[s].state,
      counter |-> StaleArgs[s].counter] :
        f \in SourceArgs, t \in TargetArgs, s \in SubgraphKind}

\* the support sets the comparison engine records: HashSet::new(), as in the
\* test, or the stored implementation edges
SupportArgs == {{}, {id \in DOMAIN edges : edges[id].subgraph = "Implementation"}}

\* the number of records the store has accepted
Accepted == (next_node_id - 1) + (next_edge_id - 1)

----------------------------------------------------------------------------
(* The state machine *)

Install(g) ==
    /\ nodes' = g.nodes
    /\ edges' = g.edges
    /\ impl_out' = g.impl_out
    /\ arch_out' = g.arch_out
    /\ maps_to' = g.maps_to
    /\ propagation_table' = g.propagation_table
    /\ next_node_id' = g.next_node_id
    /\ next_edge_id' = g.next_edge_id

Init ==
    /\ nodes = new.nodes
    /\ edges = new.edges
    /\ impl_out = new.impl_out
    /\ arch_out = new.arch_out
    /\ maps_to = new.maps_to
    /\ propagation_table = new.propagation_table
    /\ next_node_id = new.next_node_id
    /\ next_edge_id = new.next_edge_id
    /\ last = [op |-> "new", arg |-> <<>>, res |-> Unit]
    /\ node_ids = <<>>
    /\ edge_ids = <<>>
    /\ classified = <<>>

AddNode ==
    \E node \in NodeArgs :
        LET r == add_node(Self, node) IN
        /\ r.res.tag = "Ok" => Accepted < MaxRecords
        /\ Install(r.g)
        /\ last' = [op |-> "add_node", arg |-> node.parent, res |-> r.res]
        /\ node_ids' = IF r.res.tag = "Ok" THEN Append(node_ids, r.res.id) ELSE node_ids
        /\ UNCHANGED <<edge_ids, classified>>

AddEdge ==
    \E edge \in EdgeArgs :
        LET r == add_edge(Self, edge) IN
        /\ r.res.tag = "Ok" => Accepted < MaxRecords
        /\ Install(r.g)
        /\ last' = [op |-> "add_edge", arg |-> <<edge.from, edge.to>>, res |-> r.res]
        /\ edge_ids' = IF r.res.tag = "Ok" THEN Append(edge_ids, r.res.id) ELSE edge_ids
        /\ UNCHANGED <<node_ids, classified>>

InitStates ==
    /\ Install(init_states(Self))
    /\ last' = [op |-> "init_states", arg |-> <<>>, res |-> Unit]
    /\ UNCHANGED <<node_ids, edge_ids, classified>>

ClearPropagatedEdges ==
    \E order \in Orders(to_remove(Self)) :
        /\ Install(clear_propagated_edges(Self, order))
        /\ last' = [op |-> "clear_propagated_edges", arg |-> <<>>, res |-> Unit]
        /\ UNCHANGED <<node_ids, edge_ids, classified>>

\* the comparison engine recording the implementation edges that support an
\* architecture or propagated edge
PropagationInsert ==
    \E k \in {id \in DOMAIN edges : edges[id].subgraph # "Implementation"} :
    \E s \in SupportArgs :
        /\ propagation_table' = insert(propagation_table, k, s)
        /\ last' = [op |-> "propagation_insert", arg |-> <<>>, res |-> Unit]
        /\ UNCHANGED <<nodes, edges, impl_out, arch_out, maps_to,
                       next_node_id, next_edge_id, node_ids, edge_ids, classified>>

Next ==
    \/ AddNode
    \/ AddEdge
    \/ InitStates
    \/ ClearPropagatedEdges
    \/ PropagationInsert

Spec == Init /\ [][Next]_vars

----------------------------------------------------------------------------
(* The taxonomies: a caller applies the three predicates of a taxonomy to   *)
(* one state after the other.                                               *)

ClassifyEdgeState ==
    \E s \in EdgeState :
        /\ Len(classified) < MaxClassified
        /\ classified' = Append(classified,
              [taxonomy |-> "EdgeState", state |-> s,
               problem |-> EdgeState_is_violation(s),
               unknown |-> EdgeState_is_unknown(s),
               ok |-> EdgeState_is_ok(s)])
        /\ UNCHANGED <<store_vars, last, node_ids, edge_ids>>

ClassifyNodeState ==
    \E s \in NodeState :
        /\ Len(classified) < MaxClassified
        /\ classified' = Append(classified,
              [taxonomy |-> "NodeState", state |-> s,
               problem |-> NodeState_is_problem(s),
               unknown |-> NodeState_is_unknown(s),
               ok |-> NodeState_is_ok(s)])
        /\ UNCHANGED <<store_vars, last, node_ids, edge_ids>>

TaxonomyNext ==
    \/ ClassifyEdgeState
    \/ ClassifyNodeState

TaxonomySpec == Init /\ [][TaxonomyNext]_vars

----------------------------------------------------------------------------
(* Properties of the store *)

Range(s) == {s[i] : i \in DOMAIN s}

\* the number of times x occurs in the sequence v
Occurrences(v, x) == Cardinality({i \in DOMAIN v : v[i] = x})

StrictlyIncreasingFromOne(s) ==
    /\ s # <<>> => s[1] = 1
    /\ \A i, j \in DOMAIN s : i < j => s[i] < s[j]

\* the ids a call of add_edge named that the store did not hold
MissingOf(call) == {call.arg[1], call.arg[2]} \ DOMAIN nodes

\* C1: the ids the successful add_node calls returned are strictly increasing
\* from 1, and so are the ids the successful add_edge calls returned, each kind
\* on its own; so no id is returned twice, even after clear_propagated_edges
\* has removed the edge that had it.
C1_IdsStrictlyIncreasing ==
    /\ StrictlyIncreasingFromOne(node_ids)
    /\ StrictlyIncreasingFromOne(edge_ids)

\* an add_edge has just succeeded after an earlier edge was removed
C1_Witness ==
    /\ last.op = "add_edge" /\ last.res.tag = "Ok"
    /\ node_ids # <<>>
    /\ \E id \in Range(edge_ids) : id \notin DOMAIN edges /\ id < last.res.id

\* C2: an add_edge whose record names a source or a target the store lacks
\* returns NodeNotFound with an id that is missing, and changes nothing of the
\* store.
C2_FailedAddEdgeChangesNothing ==
    [][(last'.op = "add_edge" /\ MissingOf(last') # {}) =>
        /\ last'.res.tag = "NodeNotFound"
        /\ last'.res.id \in MissingOf(last')
        /\ UNCHANGED store_vars]_vars

\* an add_edge has just failed on a store that holds edges, adjacency lists
\* and propagation entries
C2_Witness ==
    /\ last.op = "add_edge" /\ last.res.tag = "NodeNotFound"
    /\ DOMAIN edges # {}
    /\ DOMAIN arch_out # {}
    /\ DOMAIN propagation_table # {}

\* C3: add_edge checks the source first: when the source is missing the error
\* names the source, also when the target is missing too; the error names a
\* target that differs from the source only when the source is stored and the
\* target is not.
C3_SourceCheckedFirst ==
    [][last'.op = "add_edge" =>
        /\ last'.arg[1] \notin DOMAIN nodes =>
              last'.res = NodeNotFound(last'.arg[1])
        /\ (last'.res = NodeNotFound(last'.arg[2]) /\ last'.arg[2] # last'.arg[1]) =>
              (last'.arg[1] \in DOMAIN nodes /\ last'.arg[2] \notin DOMAIN nodes)]_vars

\* an add_edge has just failed whose source and target were both missing and
\* different
C3_Witness ==
    /\ last.op = "add_edge"
    /\ last.arg[1] # last.arg[2]
    /\ last.arg[1] \notin DOMAIN nodes
    /\ last.arg[2] \notin DOMAIN nodes
    /\ DOMAIN nodes # {}
    /\ last.res = NodeNotFound(last.arg[1])

\* C4: an add_node whose record names a parent the store lacks returns
\* ParentNotFound with that parent, and changes nothing of the store: no node,
\* no children list, not the next node id.
C4_FailedAddNodeChangesNothing ==
    [][(last'.op = "add_node" /\ is_some(last'.arg)
            /\ unwrap(last'.arg) \notin DOMAIN nodes) =>
        /\ last'.res = ParentNotFound(unwrap(last'.arg))
        /\ UNCHANGED store_vars]_vars

\* an add_node has just failed on a store that holds a node with a child
C4_Witness ==
    /\ last.op = "add_node" /\ last.res.tag = "ParentNotFound"
    /\ \E n \in DOMAIN nodes : nodes[n].children # <<>>

\* C5: after init_states every Architecture edge is Specified with counter 0,
\* every Implementation and every Propagated edge is Undefined with counter 0,
\* and the propagation table is empty, whatever they were before.
C5_ResetComplete ==
    last.op = "init_states" =>
        /\ \A id \in DOMAIN edges :
              /\ edges[id].counter = 0
              /\ edges[id].subgraph = "Architecture" => edges[id].state = "Specified"
              /\ edges[id].subgraph \in {"Implementation", "Propagated"} =>
                    edges[id].state = "Undefined"
        /\ DOMAIN propagation_table = {}

\* init_states has just run on a store with an edge of each subgraph (every
\* edge record of the model arrives with a state and a counter that are wrong
\* for its subgraph)
C5_Witness ==
    /\ last.op = "init_states"
    /\ \A s \in SubgraphKind : \E id \in DOMAIN edges : edges[id].subgraph = s

\* the ids of the Propagated edges of the current state
PropagatedIds == {id \in DOMAIN edges : edges[id].subgraph = "Propagated"}

\* v without the ids of the set S, in the order of v
Without(v, S) == SelectSeq(v, LAMBDA x : x \notin S)

\* C6: after clear_propagated_edges no Propagated edge is stored, no id of a
\* removed edge is in any list of impl_out or arch_out, and no entry of the
\* propagation table has the id of a removed edge as its key.
C6_PurgeComplete ==
    [][last'.op = "clear_propagated_edges" =>
        /\ \A id \in DOMAIN edges' : edges'[id].subgraph # "Propagated"
        /\ DOMAIN edges' \cap PropagatedIds = {}
        /\ \A k \in DOMAIN impl_out' : Range(impl_out'[k]) \cap PropagatedIds = {}
        /\ \A k \in DOMAIN arch_out' : Range(arch_out'[k]) \cap PropagatedIds = {}
        /\ DOMAIN propagation_table' \cap PropagatedIds = {}]_vars

\* clear_propagated_edges has just removed an edge and left another one
C6_Witness ==
    /\ last.op = "clear_propagated_edges"
    /\ Range(edge_ids) \ DOMAIN edges # {}
    /\ DOMAIN edges # {}

\* C7: clear_propagated_edges changes nothing but the Propagated edges: the
\* nodes, the Architecture and Implementation edges, the remaining ids of each
\* adjacency list and their order, the propagation entries of the remaining
\* edges, the mapping and both counters are as before.
C7_PurgeFrame ==
    [][last'.op = "clear_propagated_edges" =>
        /\ nodes' = nodes
        /\ DOMAIN edges' = DOMAIN edges \ PropagatedIds
        /\ \A id \in DOMAIN edges' : edges'[id] = edges[id]
        /\ DOMAIN impl_out' = DOMAIN impl_out
        /\ \A k \in DOMAIN impl_out : impl_out'[k] = Without(impl_out[k], PropagatedIds)
        /\ DOMAIN arch_out' = DOMAIN arch_out
        /\ \A k \in DOMAIN arch_out : arch_out'[k] = Without(arch_out[k], PropagatedIds)
        /\ DOMAIN propagation_table' = DOMAIN propagation_table \ PropagatedIds
        /\ \A k \in DOMAIN propagation_table' :
              propagation_table'[k] = propagation_table[k]
        /\ maps_to' = maps_to
        /\ next_node_id' = next_node_id
        /\ next_edge_id' = next_edge_id]_vars

\* clear_propagated_edges has just removed an edge from between two others of
\* one adjacency list, and a propagation entry of a remaining edge is left
C7_Witness ==
    /\ last.op = "clear_propagated_edges"
    /\ \E k \in DOMAIN arch_out :
          /\ Len(arch_out[k]) = 2
          /\ \E id \in Range(edge_ids) \ DOMAIN edges :
                arch_out[k][1] < id /\ id < arch_out[k][2]
    /\ DOMAIN propagation_table # {}

\* C8: every stored edge is in the adjacency indices exactly once, in the list
\* of its own source: an Implementation edge in impl_out and in no list of
\* arch_out, an Architecture or Propagated edge in arch_out and in no list of
\* impl_out, and under no other key.
C8_AdjacencyRouting ==
    \A id \in DOMAIN edges :
        LET e == edges[id]
            own == IF e.subgraph = "Implementation" THEN impl_out ELSE arch_out
            other == IF e.subgraph = "Implementation" THEN arch_out ELSE impl_out
        IN /\ e.from \in DOMAIN own
           /\ Occurrences(own[e.from], id) = 1
           /\ \A k \in DOMAIN own \ {e.from} : Occurrences(own[k], id) = 0
           /\ \A k \in DOMAIN other : Occurrences(other[k], id) = 0

\* add_edge has stored an Implementation edge and an Architecture edge of
\* different sources
C8_Witness ==
    \E i, j \in DOMAIN edges :
        /\ edges[i].subgraph = "Implementation"
        /\ edges[j].subgraph = "Architecture"
        /\ edges[i].from # edges[j].from

\* the ids of the stored nodes whose parent field is Some(p)
ChildrenOf(p) == {nodes[c].id : c \in {x \in DOMAIN nodes : nodes[x].parent = Some(p)}}

\* C9: for all stored nodes p and c with c.parent = Some(p.id), the id of c
\* occurs in p.children exactly once.
C9_ChildListedOnce ==
    \A p, c \in DOMAIN nodes :
        nodes[c].parent = Some(nodes[p].id) =>
            Occurrences(nodes[p].children, nodes[c].id) = 1

\* C10: the children list of every stored node holds exactly the ids of the
\* stored nodes whose parent field names it.
C10_ChildrenAreTheChildren ==
    \A n \in DOMAIN nodes : Range(nodes[n].children) = ChildrenOf(nodes[n].id)

\* C11: init_states is idempotent: a second init_states right after the first
\* leaves the whole store as the first left it.
C11_InitStatesIdempotent ==
    /\ init_states(init_states(Self)) = init_states(Self)
    /\ last.op = "init_states" => init_states(Self) = Self

\* init_states has just run on a store with Architecture and Implementation
\* edges, after an edge had been removed
C11_Witness ==
    /\ last.op = "init_states"
    /\ Range(edge_ids) \ DOMAIN edges # {}
    /\ \E i, j \in DOMAIN edges :
          edges[i].subgraph = "Architecture" /\ edges[j].subgraph = "Implementation"

\* C12: init_states changes only the state and the counter of the edges and
\* the propagation table: the nodes, the ids, endpoints, kind and subgraph of
\* the edges, both adjacency indices, the mapping and both counters stay.
C12_InitStatesFrame ==
    [][last'.op = "init_states" =>
        /\ nodes' = nodes
        /\ DOMAIN edges' = DOMAIN edges
        /\ \A id \in DOMAIN edges :
              /\ edges'[id].id = edges[id].id
              /\ edges'[id].from = edges[id].from
              /\ edges'[id].to = edges[id].to
              /\ edges'[id].kind = edges[id].kind
              /\ edges'[id].subgraph = edges[id].subgraph
        /\ impl_out' = impl_out
        /\ arch_out' = arch_out
        /\ maps_to' = maps_to
        /\ next_node_id' = next_node_id
        /\ next_edge_id' = next_edge_id]_vars

\* init_states has just run on a store with a parent and its child and with
\* lists in both adjacency indices
C12_Witness ==
    /\ last.op = "init_states"
    /\ \E n \in DOMAIN nodes : nodes[n].parent # None
    /\ \E k \in DOMAIN impl_out : impl_out[k] # <<>>
    /\ \E k \in DOMAIN arch_out : arch_out[k] # <<>>

\* C13: clear_propagated_edges on a store without Propagated edges changes
\* nothing of the store; so a second clear_propagated_edges right after the
\* first changes nothing.
C13_PurgeNoOp ==
    [][(last'.op = "clear_propagated_edges"
            /\ (PropagatedIds = {} \/ last.op = "clear_propagated_edges")) =>
        UNCHANGED store_vars]_vars

\* clear_propagated_edges has just run on a store that never held a Propagated
\* edge and holds edges and propagation entries
C13_Witness ==
    /\ last.op = "clear_propagated_edges"
    /\ Range(edge_ids) = DOMAIN edges
    /\ DOMAIN edges # {}
    /\ DOMAIN propagation_table # {}

\* C14: every stored node and edge has its key as its id field, whatever id
\* the caller's record carried, and a successful add_node or add_edge returns
\* that key.
C14_IdIsKey ==
    /\ \A k \in DOMAIN nodes : nodes[k].id = k
    /\ \A k \in DOMAIN edges : edges[k].id = k
    /\ (last.op = "add_node" /\ last.res.tag = "Ok") => last.res.id \in DOMAIN nodes
    /\ (last.op = "add_edge" /\ last.res.tag = "Ok") => last.res.id \in DOMAIN edges

\* add_node has just stored, under id 2, the record that came with id 1, and
\* an edge whose record came with id 10 is stored
C14_Witness ==
    /\ last.op = "add_node" /\ last.res = Ok(2)
    /\ nodes[2].name = "I"
    /\ \E k \in DOMAIN edges : edges[k].subgraph = "Architecture"

\* C15: a successful add_node inserts the new node, advances the node counter
\* and, when the record has a parent, appends the new id at the end of that
\* parent's children list; every other node, every edge, both adjacency
\* indices, the propagation table, the mapping and the edge counter stay.
C15_AddNodeFrame ==
    [][(last'.op = "add_node" /\ last'.res.tag = "Ok") =>
        LET id == last'.res.id IN
        /\ id \notin DOMAIN nodes
        /\ DOMAIN nodes' = DOMAIN nodes \cup {id}
        /\ next_node_id' = next_node_id + 1
        /\ \A n \in DOMAIN nodes :
              nodes'[n] = IF last'.arg = Some(n)
                          THEN [nodes[n] EXCEPT !.children = Append(@, id)]
                          ELSE nodes[n]
        /\ UNCHANGED <<edges, impl_out, arch_out, maps_to, propagation_table,
                       next_edge_id>>]_vars

\* add_node has just added a second child to node 1 on a store with an edge
C15_Witness ==
    /\ last.op = "add_node" /\ last.res = Ok(3) /\ last.arg = Some(1)
    /\ nodes[2].parent = Some(1)
    /\ DOMAIN edges # {}

\* the number of the three predicates that are true of a classified state
TrueGroups(c) ==
    (IF c.problem THEN 1 ELSE 0) + (IF c.unknown THEN 1 ELSE 0)
        + (IF c.ok THEN 1 ELSE 0)

\* C16: of every EdgeState exactly one of is_violation, is_unknown and is_ok
\* is true, and of every NodeState exactly one of is_problem, is_unknown and
\* is_ok.
C16_ExactlyOneGroup ==
    \A i \in DOMAIN classified : TrueGroups(classified[i]) = 1

\* a caller has classified an EdgeState and a NodeState
C16_Witness ==
    /\ \E i \in DOMAIN classified : classified[i].taxonomy = "EdgeState"
    /\ \E i \in DOMAIN classified : classified[i].taxonomy = "NodeState"

\* C17: is_violation is true of Absent and Divergent only, is_ok of
\* Convergent, Allowed and AllowedAbsent only, is_unknown of Undefined,
\* Unmapped and Specified only.
C17_EdgeStateGroups ==
    \A i \in DOMAIN classified :
        LET c == classified[i] IN
        c.taxonomy = "EdgeState" =>
            /\ c.problem <=> c.state \in {"Absent", "Divergent"}
            /\ c.ok <=> c.state \in {"Convergent", "Allowed", "AllowedAbsent"}
            /\ c.unknown <=> c.state \in {"Undefined", "Unmapped", "Specified"}

\* a caller has classified a violation and a state that is none
C17_Witness ==
    /\ \E i \in DOMAIN classified :
          classified[i].taxonomy = "EdgeState" /\ classified[i].state = "Divergent"
    /\ \E i \in DOMAIN classified :
          classified[i].taxonomy = "EdgeState" /\ classified[i].state = "Unmapped"

\* C18: the subgraph, source, target and kind of an edge are those of the
\* record add_edge was given, and no operation changes them while the edge is
\* stored.
C18_EdgeFixedAtCreation ==
    /\ [](\A edge \in EdgeArgs :
            LET r == add_edge(Self, edge) IN
            r.res.tag = "Ok" =>
                LET e == r.g.edges[r.res.id] IN
                /\ r.res.id \notin DOMAIN edges
                /\ e.subgraph = edge.subgraph /\ e.kind = edge.kind
                /\ e.from = edge.from /\ e.to = edge.to)
    /\ [][\A id \in DOMAIN edges \cap DOMAIN edges' :
            /\ edges'[id].subgraph = edges[id].subgraph
            /\ edges'[id].kind = edges[id].kind
            /\ edges'[id].from = edges[id].from
            /\ edges'[id].to = edges[id].to]_vars

\* a Propagated edge that init_states has reset, and an Implementation edge
\* that init_states has reset and clear_propagated_edges has left
C18_Witness ==
    \/ /\ last.op = "init_states"
       /\ \E id \in DOMAIN edges :
             edges[id].subgraph = "Propagated" /\ edges[id].counter = 0
    \/ /\ last.op = "clear_propagated_edges"
       /\ Range(edge_ids) \ DOMAIN edges # {}
       /\ \E id \in DOMAIN edges :
             edges[id].subgraph = "Implementation" /\ edges[id].counter = 0

\* following the parent links from n reaches a node without a parent in at
\* most fuel steps
RECURSIVE ReachesRoot(_, _)
ReachesRoot(n, fuel) ==
    IF nodes[n].parent = None THEN TRUE
    ELSE IF fuel = 0 THEN FALSE
    ELSE /\ unwrap(nodes[n].parent) \in DOMAIN nodes
         /\ ReachesRoot(unwrap(nodes[n].parent), fuel - 1)

\* C19: every stored node with a parent has the parent stored, under an id
\* smaller than its own, and the parent links from every node end at a root.
C19_Forest ==
    \A n \in DOMAIN nodes :
        /\ is_some(nodes[n].parent) =>
              /\ unwrap(nodes[n].parent) \in DOMAIN nodes
              /\ unwrap(nodes[n].parent) < nodes[n].id
              /\ unwrap(nodes[n].parent) # n
        /\ ReachesRoot(n, Cardinality(DOMAIN nodes))

\* a node whose parent has a parent
C19_Witness ==
    \E n \in DOMAIN nodes :
        /\ is_some(nodes[n].parent)
        /\ is_some(nodes[unwrap(nodes[n].parent)].parent)

\* C20: the endpoints of every stored edge are stored nodes, every id in an
\* adjacency list is a stored edge whose source is the key of the list, and
\* every stored id is below its counter.
C20_IndicesNeverDangle ==
    /\ \A e \in DOMAIN edges :
          edges[e].from \in DOMAIN nodes /\ edges[e].to \in DOMAIN nodes
    /\ \A k \in DOMAIN impl_out : \A i \in DOMAIN impl_out[k] :
          impl_out[k][i] \in DOMAIN edges /\ edges[impl_out[k][i]].from = k
    /\ \A k \in DOMAIN arch_out : \A i \in DOMAIN arch_out[k] :
          arch_out[k][i] \in DOMAIN edges /\ edges[arch_out[k][i]].from = k
    /\ \A n \in DOMAIN nodes : n < next_node_id /\ nodes[n].id < next_node_id
    /\ \A e \in DOMAIN edges : e < next_edge_id /\ edges[e].id < next_edge_id

\* clear_propagated_edges has removed an edge of a source that keeps another
\* edge in the architecture-facing index
C20_Witness ==
    /\ last.op = "clear_propagated_edges"
    /\ Range(edge_ids) \ DOMAIN edges # {}
    /\ \E k \in DOMAIN arch_out : arch_out[k] # <<>>

====
